---- MODULE Spec2Model ----
(***************************************************************************)
(* A model of read_udf.py: the UDF metadata reader.                        *)
(*                                                                         *)
(* A byte is its ordinal, 0..255.  A buffer is a sequence of bytes; the    *)
(* byte at Python offset k is element k + 1.  The source is written for    *)
(* a byte string whose elements are one-byte strings (buffer[i] is passed  *)
(* to struct.unpack('B', ...) and a slice is compared with 'BEA01'), and   *)
(* that is the reading modelled.  Every raise of the source is an outcome  *)
(* named after the failure kind it stands for; the raise site is given     *)
(* with each outcome.                                                      *)
(***************************************************************************)
EXTENDS Integers, Sequences, FiniteSets, TLC

VARIABLES
    \* ---- descriptor tag validation (DescriptorTag.__init__) ----
    buffer,     \* the byte window handed to DescriptorTag
    tag,        \* what DescriptorTag made of it
    tpc,        \* "input": not parsed yet, "parsed": tag holds the result
    origin,     \* "input": buffer as given, "reserved_set": byte 5 overwritten
    \* ---- sector-size detection (get_sector_size) ----
    file_size_d,   \* the file_size argument
    probe,         \* candidate size -> the 16 bytes of the file at 256 * size
    size_i,        \* position of the loop in sizes (Len(sizes) + 1: past the end)
    detected,      \* the size returned, 0 while there is none
    dpc,           \* "probing", "returned", "failed" (line 493)
    \* ---- volume recognition scan (is_valid_udf) ----
    file_size_v,   \* the file_size argument
    vrs,           \* the standard identifiers of the whole sectors from byte 32768 on
    vpos,          \* sectors read so far
    has_bea, has_vsd, has_tea, is_valid,
    vresult,       \* the value returned
    vpc,           \* "start", "scanning", "broke", "returned"
    \* ---- go: the image, in sectors of the detected size ----
    image,         \* sector number -> the kind of sector stored there (see Sector)
    main_extent,   \* the anchor's main_volume_descriptor_sequence_extent.extent_location
    anchor_reserved_ok,  \* bytes 32..511 of the anchor sector are zero
    \* ---- go: its locals ----
    gpc,           \* "start", "walk", "broke", "maps", "extent", "returned", "failed"
    sector,        \* the next sector "for sector in range(pvd_sector, 257)" visits
    desc, partition_descriptor, logical_volume_descriptor, terminating_descriptor,
    physical_partitions,  \* partition_number -> PhysicalPartition
    logical_partitions,   \* the list of Type1Partition
    ext_start,     \* start as read_extent computes it (line 606), -1 before
    err,           \* the failure that ended go, "" while there is none
    \* ---- get_partition_maps: its receiver and its locals ----
    table,         \* the descriptor: number_of_partition_maps, raw_partition_maps
    maps_i,         \* i of "for i in range(self.number_of_partition_maps)"
    maps_part_start,    \* the cursor
    maps_retval,        \* the maps appended so far
    mpc,           \* "loop", "returned", or the failure raised
    \* ---- get_file_set_descriptor_location ----
    lvd_contents_use,  \* logical_volume_contents_use, the bytes 248..263 of the descriptor
    fsd_location,      \* the LongAllocationDescriptor made of it
    lpc            \* "input", "decoded"

tagVars == <<buffer, tag, tpc, origin>>

sizeVars == <<file_size_d, probe, size_i, detected, dpc>>

scanVars == <<file_size_v, vrs, vpos, has_bea, has_vsd, has_tea, is_valid, vresult, vpc>>

imageVars == <<image, main_extent, anchor_reserved_ok>>

goVars == <<gpc, sector, desc, partition_descriptor, logical_volume_descriptor,
            terminating_descriptor, physical_partitions, logical_partitions,
            ext_start, err>>

mapsVars == <<table, maps_i, maps_part_start, maps_retval, mpc>>

longAdVars == <<lvd_contents_use, fsd_location, lpc>>

vars == <<buffer, tag, tpc, origin, file_size_d, probe, size_i, detected, dpc,
          file_size_v, vrs, vpos, has_bea, has_vsd, has_tea, is_valid, vresult, vpc,
          image, main_extent, anchor_reserved_ok,
          gpc, sector, desc, partition_descriptor, logical_volume_descriptor,
          terminating_descriptor, physical_partitions, logical_partitions,
          ext_start, err,
          table, maps_i, maps_part_start, maps_retval, mpc, lvd_contents_use, fsd_location, lpc>>

(***************************************************************************)
(* Byte decoder                                                            *)
(***************************************************************************)
At(buf, k) == buf[k + 1]

Slice(buf, a, b) == SubSeq(buf, a + 1, b)

to_uint8(byte) == byte

to_uint16(buf, start) ==
    LET left  == (to_uint8(At(buf, start + 1)) * 256) % 65536
        right == to_uint8(At(buf, start + 0)) % 256
    IN  left + right

\* The mask 0xFF000000 leaves a byte shifted by 24 as it is.  The inputs of
\* the model keep byte 3 below 128, the range of TLC integers.
to_uint32(buf, start) ==
    LET a == to_uint8(At(buf, start + 3)) * 16777216
        b == (to_uint8(At(buf, start + 2)) * 65536) % 16777216
        c == (to_uint8(At(buf, start + 1)) * 256) % 65536
        d == to_uint8(At(buf, start + 0)) % 256
    IN  a + b + c + d

(***************************************************************************)
(* class TagIdentifier                                                     *)
(***************************************************************************)
TagIdentifier_unknown == 0
TagIdentifier_PrimaryVolumeDescriptor == 1
TagIdentifier_AnchorVolumeDescriptorPointer == 2
TagIdentifier_VolumeDescriptorPointer == 3
TagIdentifier_ImplementationUseVolumeDescriptor == 4
TagIdentifier_PartitionDescriptor == 5
TagIdentifier_LogicalVolumeDescriptor == 6
TagIdentifier_UnallocatedSpaceDescriptor == 7
TagIdentifier_TerminatingDescriptor == 8
TagIdentifier_LogicalVolumeIntegrityDescriptor == 9

(***************************************************************************)
(* BaseTag checks                                                          *)
(***************************************************************************)
\* The sum of the sixteen header bytes, byte 4 left out (lines 73-77).
RECURSIVE SumBytes(_, _, _)
SumBytes(buf, start, i) ==
    IF i = 16 THEN 0
    ELSE (IF i = 4 THEN 0 ELSE to_uint8(At(buf, start + i)))
         + SumBytes(buf, start, i + 1)

\* "while checksum > 256: checksum -= 256" (lines 80-81).
RECURSIVE Truncate(_)
Truncate(checksum) ==
    IF checksum > 256 THEN Truncate(checksum - 256) ELSE checksum

_assert_size(size, buf, start) == ~(Len(buf) - start < size)

_assert_checksum(buf, start, expected_checksum) ==
    Truncate(SumBytes(buf, start, 0)) = expected_checksum

_assert_reserve_space(buf, start, length) ==
    \A n \in (start + 1)..(start + length) :
        n <= Len(buf) => to_uint8(buf[n]) = 0

(***************************************************************************)
(* DescriptorTag.__init__: the result is a record whose outcome is "ok"    *)
(* with the eight fields read, or the failure raised first.                *)
(*   MalformedTag          line 69   UnknownTagIdentifier  line 160        *)
(*   ChecksumMismatch      line 84   ReservedFieldNonZero  line 95         *)
(***************************************************************************)
TagFailure(kind) == [outcome |-> kind]

DescriptorTag(buf, start) ==
    IF ~_assert_size(16, buf, start) THEN TagFailure("MalformedTag")
    ELSE LET tag_identifier == to_uint16(buf, start + 0)
             tag_check_sum  == to_uint8(At(buf, start + 4))
         IN  IF tag_identifier = TagIdentifier_unknown
                 THEN TagFailure("UnknownTagIdentifier")
             ELSE IF ~_assert_checksum(buf, start, tag_check_sum)
                  THEN TagFailure("ChecksumMismatch")
             ELSE IF ~_assert_reserve_space(buf, start + 5, 1)
                  THEN TagFailure("ReservedFieldNonZero")
             ELSE [outcome               |-> "ok",
                   tag_identifier        |-> tag_identifier,
                   descriptor_version    |-> to_uint16(buf, start + 2),
                   tag_check_sum         |-> tag_check_sum,
                   reserved              |-> to_uint8(At(buf, start + 5)),
                   tag_serial_number     |-> to_uint16(buf, start + 6),
                   descriptor_crc        |-> to_uint16(buf, start + 8),
                   descriptor_crc_length |-> to_uint16(buf, start + 10),
                   tag_location          |-> to_uint32(buf, start + 12)]

(***************************************************************************)
(* Tag headers the checks are run on.  The byte values are chosen so that  *)
(* the byte sum falls below, on and above 256, so that byte 4 is right,    *)
(* off by one and zero, and so that byte 5 is zero and nonzero.            *)
(***************************************************************************)
\* The checksum ECMA-167 3/7.2.3 asks for: the byte sum modulo 256.
ModSum(buf) == SumBytes(buf, 0, 0) % 256

Header(idLo, idHi, verLo, chk, res, serLo, crcLo, locLo, locHi) ==
    <<idLo, idHi, verLo, 0, chk, res, serLo, 0, crcLo, 0, 0, 0, locLo, locHi, 0, 0>>

WithChecksum(buf, delta) ==
    [buf EXCEPT ![5] = (ModSum(buf) + delta) % 256]

HeaderInputs ==
    { WithChecksum(Header(idLo, idHi, verLo, 0, res, serLo, crcLo, locLo, locHi), d) :
        idLo \in {0, 1, 2, 8}, idHi \in {0, 1}, verLo \in {2, 253, 254, 255},
        res \in {0, 1, 255}, serLo \in {0, 1}, crcLo \in {0, 200},
        locLo \in {0, 1}, locHi \in {0, 1}, d \in {0, 1} }
    \cup { Header(idLo, 0, verLo, 0, 0, 0, 0, 0, locHi) :
        idLo \in {1, 2}, verLo \in {2, 253, 254, 255}, locHi \in {0, 1} }

ShortInputs == { SubSeq(h, 1, n) : h \in {Header(2, 0, 2, 5, 0, 0, 0, 0, 1)}, n \in {0, 15} }

ReservedValues == {1, 2, 128, 255}

GoIdle ==
    /\ image = <<>>
    /\ main_extent = 0
    /\ anchor_reserved_ok = TRUE
    /\ gpc = "idle"
    /\ sector = 0
    /\ desc = [outcome |-> "None"]
    /\ partition_descriptor = [outcome |-> "unbound"]
    /\ logical_volume_descriptor = [outcome |-> "None"]
    /\ terminating_descriptor = [outcome |-> "None"]
    /\ physical_partitions = <<>>
    /\ logical_partitions = <<>>
    /\ ext_start = -1
    /\ err = ""

ScanIdle ==
    /\ file_size_v = 0
    /\ vrs = <<>>
    /\ vpos = 0
    /\ has_bea = FALSE
    /\ has_vsd = FALSE
    /\ has_tea = FALSE
    /\ is_valid = FALSE
    /\ vresult = FALSE
    /\ vpc = "idle"

SizeIdle ==
    /\ file_size_d = 0
    /\ probe = <<>>
    /\ size_i = 0
    /\ detected = 0
    /\ dpc = "idle"

MapsIdle ==
    /\ table = <<>>
    /\ maps_i = 0
    /\ maps_part_start = 0
    /\ maps_retval = <<>>
    /\ mpc = "idle"

LongAdIdle ==
    /\ lvd_contents_use = <<>>
    /\ fsd_location = [outcome |-> "None"]
    /\ lpc = "idle"

TagIdle ==
    /\ buffer = <<>>
    /\ tag = TagFailure("none")
    /\ tpc = "idle"
    /\ origin = "idle"

InitTag ==
    /\ SizeIdle
    /\ MapsIdle
    /\ LongAdIdle
    /\ ScanIdle
    /\ GoIdle
    /\ buffer \in HeaderInputs \cup ShortInputs
    /\ tag = TagFailure("none")
    /\ tpc = "input"
    /\ origin = "input"

\* tag = DescriptorTag(buffer)
TagParse ==
    /\ tpc = "input"
    /\ tag' = DescriptorTag(buffer, 0)
    /\ tpc' = "parsed"
    /\ UNCHANGED <<buffer, origin>>
    /\ UNCHANGED <<sizeVars, scanVars, imageVars, goVars, mapsVars, longAdVars>>

\* The caller overwrites byte 5 of a header that validated and parses it again.
TagSetReserved ==
    /\ tpc = "parsed"
    /\ origin = "input"
    /\ tag.outcome = "ok"
    /\ \E v \in ReservedValues : buffer' = [buffer EXCEPT ![6] = v]
    /\ tpc' = "input"
    /\ origin' = "reserved_set"
    /\ UNCHANGED tag
    /\ UNCHANGED <<sizeVars, scanVars, imageVars, goVars, mapsVars, longAdVars>>

NextTag == TagParse \/ TagSetReserved

SpecTag == InitTag /\ [][NextTag]_vars

(***************************************************************************)
(* get_sector_size                                                         *)
(***************************************************************************)
sizes == <<4096, 2048, 1024, 512>>

AnchorSector == 256

\* A tag header with the checksum the source accepts for it, when there is
\* one (the source accepts none for a byte sum that is a multiple of 256).
TagHeader(id, verLo, loc) ==
    WithChecksum(Header(id % 256, id \div 256, verLo, 0, 0, 0, 0,
                        loc % 256, loc \div 256), 0)

ProbeInputs ==
    { TagHeader(TagIdentifier_AnchorVolumeDescriptorPointer, 2, AnchorSector),
      TagHeader(TagIdentifier_AnchorVolumeDescriptorPointer, 253, AnchorSector),
      TagHeader(TagIdentifier_AnchorVolumeDescriptorPointer, 2, AnchorSector + 1),
      TagHeader(TagIdentifier_PrimaryVolumeDescriptor, 2, AnchorSector),
      WithChecksum(Header(2, 0, 2, 0, 0, 0, 0, 0, 1), 1),
      WithChecksum(Header(2, 0, 2, 0, 1, 0, 0, 0, 1), 0),
      Header(0, 0, 0, 0, 0, 0, 0, 0, 0) }

FileSizeInputs ==
    { 257 * sizes[i] : i \in 1..Len(sizes) } \cup { 257 * sizes[Len(sizes)] - 1 }

InitSize ==
    /\ TagIdle
    /\ MapsIdle
    /\ LongAdIdle
    /\ ScanIdle
    /\ GoIdle
    /\ file_size_d \in FileSizeInputs
    /\ probe \in [{sizes[i] : i \in 1..Len(sizes)} -> ProbeInputs]
    /\ size_i = 1
    /\ detected = 0
    /\ dpc = "probing"

\* Whether one pass of the loop body (lines 466-491) returns the size.
SizeAccepted(file_size, buf, size) ==
    IF file_size < 257 * size THEN FALSE
    ELSE LET t == DescriptorTag(buf, 0)
         IN  IF t.outcome # "ok" THEN FALSE
             ELSE IF ~(t.tag_location = 256) THEN FALSE
             ELSE IF ~(t.tag_identifier = TagIdentifier_AnchorVolumeDescriptorPointer)
                  THEN FALSE
             ELSE TRUE

\* One pass of "for size in sizes".
SizeProbe ==
    /\ dpc = "probing"
    /\ size_i <= Len(sizes)
    /\ IF SizeAccepted(file_size_d, probe[sizes[size_i]], sizes[size_i])
       THEN /\ detected' = sizes[size_i]
            /\ dpc' = "returned"
            /\ UNCHANGED size_i
       ELSE /\ size_i' = size_i + 1
            /\ UNCHANGED <<detected, dpc>>
    /\ UNCHANGED <<file_size_d, probe>>
    /\ UNCHANGED <<tagVars, scanVars, imageVars, goVars, mapsVars, longAdVars>>

\* raise Exception("Could not get sector size.")
SizeExhausted ==
    /\ dpc = "probing"
    /\ size_i > Len(sizes)
    /\ dpc' = "failed"
    /\ UNCHANGED <<file_size_d, probe, size_i, detected>>
    /\ UNCHANGED <<tagVars, scanVars, imageVars, goVars, mapsVars, longAdVars>>

NextSize == SizeProbe \/ SizeExhausted

SpecSize == InitSize /\ [][NextSize]_vars


(***************************************************************************)
(* is_valid_udf                                                            *)
(***************************************************************************)
HEADER_SIZE == 32768

SECTOR_SIZE == 2048

MaxVrsSectors == 4

\* buffer[1 : 6] of a sector.  "ZEROS" is five zero bytes, "XXXXX" any other
\* five bytes the source does not list.
StandardIdentifiers ==
    {"BEA01", "NSR02", "NSR03", "TEA01", "BOOT2", "CD001", "CDW02", "ZEROS", "XXXXX"}

VrsInputs == UNION { [1..n -> StandardIdentifiers] : n \in 0..MaxVrsSectors }

InitScan ==
    /\ TagIdle
    /\ MapsIdle
    /\ LongAdIdle
    /\ SizeIdle
    /\ GoIdle
    /\ vrs \in VrsInputs
    /\ file_size_v \in { HEADER_SIZE + Len(vrs) * SECTOR_SIZE,
                         HEADER_SIZE + Len(vrs) * SECTOR_SIZE + SECTOR_SIZE - 1 }
    /\ vpos = 0
    /\ has_bea = FALSE
    /\ has_vsd = FALSE
    /\ has_tea = FALSE
    /\ is_valid = FALSE
    /\ vresult = FALSE
    /\ vpc = "start"

\* ScanVerdict with is_valid taken into the result.
ScanVerdictWithValid(valid, bea, vsd, tea) == valid /\ bea /\ vsd /\ tea

\* The value of "return has_bea and has_vsd and has_tea" (line 461); is_valid
\* is in scope there and is not used.
ScanVerdict(valid, bea, vsd, tea) == bea /\ vsd /\ tea

\* Lines 425-435: the size check, the seek past the header, the flags.
ScanStart ==
    /\ vpc = "start"
    /\ IF file_size_v < HEADER_SIZE + SECTOR_SIZE
       THEN /\ vresult' = FALSE
            /\ vpc' = "returned"
            /\ UNCHANGED is_valid
       ELSE /\ is_valid' = TRUE
            /\ vpc' = "scanning"
            /\ UNCHANGED vresult
    /\ UNCHANGED <<file_size_v, vrs, vpos, has_bea, has_vsd, has_tea>>
    /\ UNCHANGED <<tagVars, sizeVars, imageVars, goVars, mapsVars, longAdVars>>

\* One pass of "while(is_valid)" (lines 438-459).
ScanSector ==
    /\ vpc = "scanning"
    /\ is_valid
    /\ IF vpos >= Len(vrs)
       THEN \* len(buffer) < SECTOR_SIZE: break
            /\ vpc' = "broke"
            /\ UNCHANGED <<vpos, has_bea, has_vsd, has_tea, is_valid>>
       ELSE LET standard_identifier == vrs[vpos + 1]
            IN  /\ vpos' = vpos + 1
                /\ has_bea' = (has_bea \/ standard_identifier \in {"BEA01"})
                /\ has_vsd' = (has_vsd \/ standard_identifier \in {"NSR02", "NSR03"})
                /\ has_tea' = (has_tea \/ standard_identifier \in {"TEA01"})
                /\ is_valid' =
                     (standard_identifier \in
                        {"BEA01", "NSR02", "NSR03", "TEA01", "BOOT2", "CD001", "CDW02"})
                /\ UNCHANGED vpc
    /\ UNCHANGED <<file_size_v, vrs, vresult>>
    /\ UNCHANGED <<tagVars, sizeVars, imageVars, goVars, mapsVars, longAdVars>>

\* The loop is left (by break or by is_valid) and line 461 returns.
ScanReturn ==
    /\ \/ vpc = "broke"
       \/ vpc = "scanning" /\ ~is_valid
    /\ vresult' = ScanVerdict(is_valid, has_bea, has_vsd, has_tea)
    /\ vpc' = "returned"
    /\ UNCHANGED <<file_size_v, vrs, vpos, has_bea, has_vsd, has_tea, is_valid>>
    /\ UNCHANGED <<tagVars, sizeVars, imageVars, goVars, mapsVars, longAdVars>>

NextScan == ScanStart \/ ScanSector \/ ScanReturn

SpecScan == InitScan /\ [][NextScan]_vars

(***************************************************************************)
(* The typed descriptors.  A 512-byte sector is a record: tag is its first *)
(* sixteen bytes, the other fields are the values the parser of its kind   *)
(* reads at the offsets of the source, and reserved_ok says whether the    *)
(* bytes that parser requires to be zero are zero.  The byte strings the   *)
(* later stages decode (the contents-use field, the partition maps) stay   *)
(* bytes.                                                                  *)
(***************************************************************************)
Failure(kind) == [outcome |-> kind]

None == Failure("None")

\* A local variable of go that no assignment has bound yet.
Unbound == Failure("unbound")

\* ExtentDescriptor.__init__ at 16 and the zero check of bytes 32..511.
AnchorVolumeDescriptorPointer(c) ==
    LET t == DescriptorTag(c.tag, 0)
    IN  IF t.outcome # "ok" THEN Failure(t.outcome)
        ELSE IF ~(t.tag_identifier = TagIdentifier_AnchorVolumeDescriptorPointer)
             THEN Failure("UnexpectedTag")
        ELSE IF ~c.reserved_ok THEN Failure("ReservedFieldNonZero")
        ELSE [outcome |-> "ok", extent_location |-> c.extent_location]

PrimaryVolumeDescriptor(c) ==
    LET t == DescriptorTag(c.tag, 0)
    IN  IF t.outcome # "ok" THEN Failure(t.outcome)
        ELSE IF ~(t.tag_identifier = TagIdentifier_PrimaryVolumeDescriptor)
             THEN Failure("UnexpectedTag")
        ELSE IF ~c.reserved_ok THEN Failure("ReservedFieldNonZero")
        ELSE [outcome |-> "ok",
              volume_descriptor_sequence_number |-> c.volume_descriptor_sequence_number]

PartitionDescriptor(c) ==
    LET t == DescriptorTag(c.tag, 0)
    IN  IF t.outcome # "ok" THEN Failure(t.outcome)
        ELSE IF ~(t.tag_identifier = TagIdentifier_PartitionDescriptor)
             THEN Failure("UnexpectedTag")
        ELSE IF ~c.reserved_ok THEN Failure("ReservedFieldNonZero")
        ELSE [outcome |-> "ok",
              partition_number            |-> c.partition_number,
              partition_starting_location |-> c.partition_starting_location,
              partition_length            |-> c.partition_length]

\* domain_ok: "*OSTA UDF Compliant" is in bytes 217..239 (line 336).
LogicalVolumeDescriptor(c) ==
    LET t == DescriptorTag(c.tag, 0)
    IN  IF t.outcome # "ok" THEN Failure(t.outcome)
        ELSE IF ~(t.tag_identifier = TagIdentifier_LogicalVolumeDescriptor)
             THEN Failure("UnexpectedTag")
        ELSE IF ~c.domain_ok THEN Failure("NotOstaCompliant")
        ELSE [outcome |-> "ok",
              logical_block_size          |-> c.logical_block_size,
              logical_volume_contents_use |-> c.logical_volume_contents_use,
              number_of_partition_maps    |-> c.number_of_partition_maps,
              raw_partition_maps          |-> c.raw_partition_maps]

\* TerminatingDescriptor.__init__ checks the size only.
TerminatingDescriptor(c) == [outcome |-> "ok"]

(***************************************************************************)
(* Type1PartitionMap, Type2PartitionMap, get_partition_maps                *)
(***************************************************************************)
Type1PartitionMap(buf, start) ==
    IF ~_assert_size(6, buf, start) THEN Failure("TruncatedBuffer")
    ELSE LET partition_map_type   == to_uint8(At(buf, start + 0))
             partition_map_length == to_uint8(At(buf, start + 1))
         IN  IF ~(partition_map_type = 1) THEN Failure("PartitionMapTypeMismatch")
             ELSE IF ~(partition_map_length = 6)
                  THEN Failure("PartitionMapLengthMismatch")
             ELSE [outcome                |-> "ok",
                   class                  |-> "Type1PartitionMap",
                   size                   |-> 6,
                   partition_map_type     |-> partition_map_type,
                   partition_map_length   |-> partition_map_length,
                   volume_sequence_number |-> to_uint16(buf, start + 2),
                   partition_number       |-> to_uint16(buf, start + 4)]

\* The loop of get_partition_maps from pass i on: the maps appended so far
\* and the cursor go in, the list returned or the failure raised comes out.
RECURSIVE PartitionMapsFrom(_, _, _, _)
PartitionMapsFrom(lvd, i, part_start, retval) ==
    IF i >= lvd.number_of_partition_maps THEN [outcome |-> "ok", maps |-> retval]
    ELSE IF part_start >= Len(lvd.raw_partition_maps) THEN Failure("IndexError")
    ELSE LET partition_type == to_uint8(At(lvd.raw_partition_maps, part_start))
         IN  IF partition_type = 1
             THEN LET partition == Type1PartitionMap(lvd.raw_partition_maps, part_start)
                  IN  IF partition.outcome # "ok" THEN Failure(partition.outcome)
                      ELSE PartitionMapsFrom(lvd, i + 1, part_start + partition.size,
                                             Append(retval, partition))
             ELSE Failure("UnknownPartitionMapType")

get_partition_maps(lvd) == PartitionMapsFrom(lvd, 0, 0, <<>>)

(***************************************************************************)
(* LongAllocationDescriptor, LogicalBlockAddress                           *)
(***************************************************************************)
\* Lines 378-379 read at offsets 0 and 4 of the buffer, whatever start is.
LogicalBlockAddress(buf, start) ==
    IF ~_assert_size(6, buf, start) THEN Failure("TruncatedBuffer")
    ELSE [outcome                    |-> "ok",
          logical_block_number       |-> to_uint32(buf, 0),
          partition_reference_number |-> to_uint16(buf, 4)]

LongAllocationDescriptor(buf) ==
    IF ~_assert_size(16, buf, 0) THEN Failure("TruncatedBuffer")
    ELSE LET extent_location == LogicalBlockAddress(buf, 4)
         IN  IF extent_location.outcome # "ok" THEN Failure(extent_location.outcome)
             ELSE [outcome            |-> "ok",
                   extent_length      |-> to_uint32(buf, 0),
                   extent_location    |-> extent_location,
                   implementation_use |-> Slice(buf, 10, 16)]

get_file_set_descriptor_location(lvd) ==
    LongAllocationDescriptor(lvd.logical_volume_contents_use)

(***************************************************************************)
(* The sectors the images are made of                                      *)
(***************************************************************************)
Zeros(n) == [i \in 1..n |-> 0]

Type1Record(partition_number) ==
    <<1, 6, 1, 0, partition_number % 256, partition_number \div 256>>

Type2Record == <<2, 64>> \o Zeros(62)

RawMaps(records) == records \o Zeros(72 - Len(records))

\* long_ad: extent length at 0, logical block number at 4, partition
\* reference number at 8 (ECMA-167 4/14.14.2).
LongAd(length, block, ref) ==
    <<length % 256, (length \div 256) % 256, (length \div 65536) % 256, 0,
      block % 256, (block \div 256) % 256, (block \div 65536) % 256, 0,
      ref % 256, ref \div 256, 0, 0, 0, 0, 0, 0>>

PvdSector(number) ==
    [tag |-> TagHeader(TagIdentifier_PrimaryVolumeDescriptor, 2, 0),
     volume_descriptor_sequence_number |-> number,
     reserved_ok |-> TRUE]

PdSector(number, start, length, ok) ==
    [tag |-> TagHeader(TagIdentifier_PartitionDescriptor, 2, 0),
     partition_number |-> number,
     partition_starting_location |-> start,
     partition_length |-> length,
     reserved_ok |-> ok]

LvdSector(block_size, contents_use, count, records, ok) ==
    [tag |-> TagHeader(TagIdentifier_LogicalVolumeDescriptor, 2, 0),
     logical_block_size |-> block_size,
     logical_volume_contents_use |-> contents_use,
     number_of_partition_maps |-> count,
     raw_partition_maps |-> RawMaps(records),
     domain_ok |-> ok]

Sector(kind) ==
    CASE kind = "ZERO"  -> [tag |-> Zeros(16)]
      [] kind = "PVD1"  -> PvdSector(1)
      [] kind = "PVD2"  -> PvdSector(2)
      [] kind = "PD0a"  -> PdSector(0, 100, 50, TRUE)
      [] kind = "PD0b"  -> PdSector(0, 200, 10, TRUE)
      [] kind = "PD1"   -> PdSector(1, 300, 20, TRUE)
      [] kind = "LVD_A" -> LvdSector(2048, LongAd(2048, 10, 0), 1, Type1Record(0), TRUE)
      [] kind = "LVD_B" -> LvdSector(2048, LongAd(2048, 1, 0), 2,
                                     Type1Record(1) \o Type1Record(0), TRUE)
      [] kind = "LVD_T2" -> LvdSector(2048, LongAd(2048, 0, 0), 1, Type2Record, TRUE)
      [] kind = "TD"    -> [tag |-> TagHeader(TagIdentifier_TerminatingDescriptor, 2, 0)]
      [] kind = "LVD_C" -> LvdSector(512, LongAd(512, 0, 0), 1, Type1Record(0), TRUE)
      [] kind = "LVD_T3" -> LvdSector(2048, LongAd(2048, 0, 0), 1,
                                      <<3, 6, 1, 0, 0, 0>>, TRUE)
      [] kind = "LVD_NOT_OSTA" ->
             LvdSector(2048, LongAd(2048, 0, 0), 1, Type1Record(0), FALSE)
      [] kind = "PD_RESERVED" -> PdSector(0, 100, 50, FALSE)
      [] kind = "USD"   -> [tag |-> TagHeader(TagIdentifier_UnallocatedSpaceDescriptor, 2, 0)]
      [] kind = "TAG10" -> [tag |-> TagHeader(10, 2, 0)]
      [] kind = "PD_BADSUM" ->
             [PdSector(0, 200, 10, TRUE) EXCEPT
                !.tag = WithChecksum(Header(5, 0, 2, 0, 0, 0, 0, 0, 0), 1)]
      [] kind = "PD_TAGRES" ->
             [PdSector(0, 200, 10, TRUE) EXCEPT
                !.tag = WithChecksum(Header(5, 0, 2, 0, 1, 0, 0, 0, 0), 0)]
      \* a PartitionDescriptor whose tag bytes sum to 256: byte 4 is 0
      [] kind = "PD0_SUM256" ->
             [PdSector(0, 400, 5, TRUE) EXCEPT
                !.tag = WithChecksum(Header(5, 0, 2, 0, 0, 249, 0, 0, 0), 0)]
      \* a table of a type 1 record for partition 1 and a type 2 record
      [] kind = "LVD_MIX" -> LvdSector(2048, LongAd(2048, 0, 0), 2,
                                       Type1Record(1) \o Type2Record, TRUE)

MainKinds ==
    {"ZERO", "PVD1", "PVD2", "PD0a", "PD0b", "PD1", "LVD_A", "LVD_B", "LVD_T2", "TD"}

ExtraKinds ==
    {"LVD_C", "LVD_T3", "LVD_NOT_OSTA", "PD_RESERVED", "USD", "TAG10", "PD_BADSUM",
     "PD_TAGRES", "PD0_SUM256", "LVD_MIX"}

(***************************************************************************)
(* go: the helpers of its steps                                            *)
(***************************************************************************)
PhysicalPartition(start, size) == [start |-> start, size |-> size]

Type1Partition(lvd, map, physical_partition) ==
    [logical_block_size |-> lvd.logical_block_size,
     partition_map      |-> map,
     physical_partition |-> physical_partition]

\* Lines 550-552.
PartitionBytes(pd, sector_size) ==
    PhysicalPartition(pd.partition_starting_location * sector_size,
                      pd.partition_length * sector_size)

\* physical_partitions[key] = value
DictSet(dict, key, value) ==
    [k \in DOMAIN dict \cup {key} |-> IF k = key THEN value ELSE dict[k]]

\* An assignment to a local that is bound already: the new value replaces it.
Rebind(old, new) == new

\* The anchor sector.  The sixteen bytes at 256 * sector_size are the bytes
\* get_sector_size probed.
AnchorBytes ==
    [tag |-> probe[detected], extent_location |-> main_extent,
     reserved_ok |-> anchor_reserved_ok]

\* The locals of the walk as one record.
Locals ==
    [desc |-> desc,
     partition_descriptor |-> partition_descriptor,
     logical_volume_descriptor |-> logical_volume_descriptor,
     terminating_descriptor |-> terminating_descriptor,
     physical_partitions |-> physical_partitions,
     raised |-> ""]

Raise(w, kind) == [w EXCEPT !.raised = kind]

\* Lines 536-568: the dispatch on the identifier of a tag that validated.
Dispatch(w, c, t, sector_size) ==
    CASE t.tag_identifier = TagIdentifier_PrimaryVolumeDescriptor ->
            LET d == PrimaryVolumeDescriptor(c)
            IN  IF d.outcome # "ok" THEN Raise(w, d.outcome)
                ELSE [w EXCEPT !.desc = Rebind(@, d)]
      [] t.tag_identifier = TagIdentifier_AnchorVolumeDescriptorPointer ->
            LET anchor == AnchorVolumeDescriptorPointer(c)
            IN  IF anchor.outcome # "ok" THEN Raise(w, anchor.outcome) ELSE w
      [] t.tag_identifier = TagIdentifier_PartitionDescriptor ->
            LET d == PartitionDescriptor(c)
            IN  IF d.outcome # "ok" THEN Raise(w, d.outcome)
                ELSE [w EXCEPT
                        !.partition_descriptor = Rebind(@, d),
                        !.physical_partitions =
                            DictSet(@, d.partition_number,
                                    PartitionBytes(d, sector_size))]
      [] t.tag_identifier = TagIdentifier_LogicalVolumeDescriptor ->
            LET d == LogicalVolumeDescriptor(c)
            IN  IF d.outcome # "ok" THEN Raise(w, d.outcome)
                ELSE [w EXCEPT !.logical_volume_descriptor = Rebind(@, d)]
      [] t.tag_identifier = TagIdentifier_TerminatingDescriptor ->
            [w EXCEPT !.terminating_descriptor = Rebind(@, TerminatingDescriptor(c))]
      [] OTHER -> w

\* Line 570: "if logical_volume_descriptor and partition_descriptor and
\* terminating_descriptor", read left to right; partition_descriptor has no
\* binding before the first PartitionDescriptor sector.
Line570(w) ==
    IF w.logical_volume_descriptor = None THEN "continue"
    ELSE IF w.partition_descriptor = Unbound THEN "UnboundLocalError"
    ELSE IF w.terminating_descriptor = None THEN "continue"
    ELSE "break"

\* Line 574: "if not logical_volume_descriptor or not partition_descriptor
\* or not terminating_descriptor".
Line574(w) ==
    IF w.logical_volume_descriptor = None THEN "RequiredDescriptorsMissing"
    ELSE IF w.partition_descriptor = Unbound THEN "UnboundLocalError"
    ELSE IF w.terminating_descriptor = None THEN "RequiredDescriptorsMissing"
    ELSE ""

\* Lines 588-597 from map i on.  logical_partitions is appended to in place
\* (line 595), so a raise in a later pass leaves the partitions of the
\* passes before it in the list.
RECURSIVE LogicalPartitionsFrom(_, _, _, _, _)
LogicalPartitionsFrom(lvd, maps, i, dict, acc) ==
    IF i > Len(maps) THEN [outcome |-> "ok", partitions |-> acc]
    ELSE LET map == maps[i]
         IN  IF map.class = "Type1PartitionMap"
             THEN IF map.partition_number \notin DOMAIN dict
                  THEN [outcome |-> "PartitionDescriptorMissing", partitions |-> acc]
                  ELSE LogicalPartitionsFrom(lvd, maps, i + 1, dict,
                           Append(acc, Type1Partition(lvd, map,
                                                      dict[map.partition_number])))
             ELSE IF map.class = "Type2PartitionMap"
                  THEN [outcome |-> "UnsupportedPartitionMapType", partitions |-> acc]
             ELSE LogicalPartitionsFrom(lvd, maps, i + 1, dict, acc)

\* read_extent: the index of line 605, the product of line 606, and line
\* 607, which reads the attribute content no Type1Partition has.
read_extent(partitions, extent) ==
    LET ref == extent.extent_location.partition_reference_number
    IN  IF ref >= Len(partitions)
        THEN [outcome |-> "PartitionReferenceOutOfRange", start |-> -1]
        ELSE LET logical_partition == partitions[ref + 1]
             IN  [outcome |-> "AttributeError",
                  start |-> extent.extent_location.logical_block_number
                            * logical_partition.logical_block_size]

(***************************************************************************)
(* The pipeline of lines 614-616: get_sector_size, then go                 *)
(***************************************************************************)
MaxWalk == 4

FirstSector == AnchorSector - MaxWalk

\* What the images hold past the anchor: the layout of a volume whose
\* descriptor sequence starts at sector 257.
PastAnchor == <<"PVD1", "PD0a", "LVD_A", "TD">>

LastSector == AnchorSector + Len(PastAnchor)

ImageSectors == (FirstSector..LastSector) \ {AnchorSector}

\* The content of a sector before the anchor is drawn when the walk first
\* reads it; until then image holds "unread" for it.
UnreadImage ==
    [n \in ImageSectors |->
        IF n > AnchorSector THEN PastAnchor[n - AnchorSector] ELSE "unread"]

KindsAt(n) ==
    IF n = AnchorSector - 1 THEN MainKinds \cup ExtraKinds ELSE MainKinds

\* The anchor tag at 256 * size, zeros at the other candidates.
ProbeWith(size) ==
    [c \in {sizes[i] : i \in 1..Len(sizes)} |->
        IF c = size
        THEN TagHeader(TagIdentifier_AnchorVolumeDescriptorPointer, 2, AnchorSector)
        ELSE Zeros(16)]

FileSizeFor(size) == (LastSector + 1) * size

InitGo ==
    /\ TagIdle
    /\ MapsIdle
    /\ LongAdIdle
    /\ ScanIdle
    /\ size_i = 1
    /\ detected = 0
    /\ dpc = "probing"
    /\ \/ \E size \in {2048, 4096} :
            /\ probe = ProbeWith(size)
            /\ file_size_d = FileSizeFor(size)
            /\ anchor_reserved_ok = TRUE
            /\ main_extent \in FirstSector..(AnchorSector + 2)
       \/ \* no anchor at any candidate size
          /\ probe = ProbeWith(0)
          /\ file_size_d = FileSizeFor(2048)
          /\ anchor_reserved_ok = TRUE
          /\ main_extent = AnchorSector
       \/ \* an anchor whose reserved bytes are not zero
          /\ probe = ProbeWith(2048)
          /\ file_size_d = FileSizeFor(2048)
          /\ anchor_reserved_ok = FALSE
          /\ main_extent = AnchorSector - 1
    /\ image = UnreadImage
    /\ gpc = "start"
    /\ sector = 0
    /\ desc = Unbound
    /\ partition_descriptor = Unbound
    /\ logical_volume_descriptor = None
    /\ terminating_descriptor = None
    /\ physical_partitions = <<>>
    /\ logical_partitions = <<>>
    /\ ext_start = -1
    /\ err = ""

GoFail(kind) ==
    /\ gpc' = "failed"
    /\ err' = kind

\* Lines 496-516: the size check, the anchor, the locals.
GoStart ==
    /\ gpc = "start"
    /\ dpc = "returned"
    /\ IF file_size_d < 257 * detected
       THEN /\ gpc' = "returned"
            /\ UNCHANGED <<sector, err>>
       ELSE LET c == AnchorBytes
                t == DescriptorTag(c.tag, 0)
            IN  IF t.outcome # "ok"
                THEN GoFail(t.outcome) /\ UNCHANGED sector
                ELSE IF ~(t.tag_identifier = TagIdentifier_AnchorVolumeDescriptorPointer)
                THEN GoFail("UnexpectedTag") /\ UNCHANGED sector
                ELSE LET avdp == AnchorVolumeDescriptorPointer(c)
                     IN  IF avdp.outcome # "ok"
                         THEN GoFail(avdp.outcome) /\ UNCHANGED sector
                         ELSE /\ sector' = avdp.extent_location
                              /\ gpc' = "walk"
                              /\ UNCHANGED err
    /\ UNCHANGED <<desc, partition_descriptor, logical_volume_descriptor,
                   terminating_descriptor, physical_partitions, logical_partitions,
                   ext_start>>
    /\ UNCHANGED <<tagVars, sizeVars, scanVars, imageVars, mapsVars, longAdVars>>

\* WalkSector without the except clause of lines 526-527: the failure of
\* DescriptorTag leaves go.
WalkSectorNoSkip(c) ==
    LET t == DescriptorTag(c.tag, 0)
    IN  IF t.outcome # "ok"
        THEN /\ GoFail(t.outcome)
             /\ UNCHANGED <<desc, partition_descriptor, logical_volume_descriptor,
                            terminating_descriptor, physical_partitions>>
        ELSE \E w \in {Dispatch(Locals, c, t, detected)} :
             LET flow == IF w.raised # "" THEN w.raised ELSE Line570(w)
             IN  /\ desc' = w.desc
                 /\ partition_descriptor' = w.partition_descriptor
                 /\ logical_volume_descriptor' = w.logical_volume_descriptor
                 /\ terminating_descriptor' = w.terminating_descriptor
                 /\ physical_partitions' = w.physical_partitions
                 /\ IF flow = "continue" THEN UNCHANGED <<gpc, err>>
                    ELSE IF flow = "break" THEN gpc' = "broke" /\ UNCHANGED err
                    ELSE GoFail(flow)

\* Lines 518-571 for a sector whose 512 bytes are c.
WalkSector(c) ==
    LET t == DescriptorTag(c.tag, 0)
    IN  IF t.outcome # "ok"
        THEN \* except: continue
             UNCHANGED <<gpc, err, desc, partition_descriptor,
                         logical_volume_descriptor, terminating_descriptor,
                         physical_partitions>>
        ELSE \E w \in {Dispatch(Locals, c, t, detected)} :
             LET flow == IF w.raised # "" THEN w.raised ELSE Line570(w)
             IN  /\ desc' = w.desc
                 /\ partition_descriptor' = w.partition_descriptor
                 /\ logical_volume_descriptor' = w.logical_volume_descriptor
                 /\ terminating_descriptor' = w.terminating_descriptor
                 /\ physical_partitions' = w.physical_partitions
                 /\ IF flow = "continue" THEN UNCHANGED <<gpc, err>>
                    ELSE IF flow = "break" THEN gpc' = "broke" /\ UNCHANGED err
                    ELSE GoFail(flow)

\* One pass of "for sector in range(pvd_sector, 257)" (lines 517-571).
WalkStep ==
    /\ gpc = "walk"
    /\ sector < 257
    /\ IF sector = AnchorSector
       THEN WalkSector(AnchorBytes) /\ UNCHANGED image
       ELSE \E kind \in KindsAt(sector) :
               /\ image' = [image EXCEPT ![sector] = kind]
               /\ WalkSector(Sector(kind))
    /\ sector' = sector + 1
    /\ UNCHANGED <<logical_partitions, ext_start>>
    /\ UNCHANGED <<main_extent, anchor_reserved_ok>>
    /\ UNCHANGED <<tagVars, sizeVars, scanVars, mapsVars, longAdVars>>

\* The loop is over (the range is used up, or break) and line 574 checks.
GoCheck ==
    /\ \/ gpc = "walk" /\ ~(sector < 257)
       \/ gpc = "broke"
    /\ IF Line574(Locals) # ""
       THEN GoFail(Line574(Locals))
       ELSE gpc' = "maps" /\ UNCHANGED err
    /\ UNCHANGED <<sector, desc, partition_descriptor, logical_volume_descriptor,
                   terminating_descriptor, physical_partitions, logical_partitions,
                   ext_start>>
    /\ UNCHANGED <<tagVars, sizeVars, scanVars, imageVars, mapsVars, longAdVars>>

\* Lines 588-597: logical_volume_descriptor.partition_maps and the loop over it.
GoMaps ==
    /\ gpc = "maps"
    /\ LET decoded == get_partition_maps(logical_volume_descriptor)
       IN  IF decoded.outcome # "ok"
           THEN GoFail(decoded.outcome) /\ UNCHANGED logical_partitions
           ELSE LET bound == LogicalPartitionsFrom(logical_volume_descriptor,
                                 decoded.maps, 1, physical_partitions,
                                 logical_partitions)
                IN  IF bound.outcome # "ok"
                    THEN GoFail(bound.outcome) /\ logical_partitions' = bound.partitions
                    ELSE /\ logical_partitions' = bound.partitions
                         /\ gpc' = "extent"
                         /\ UNCHANGED err
    /\ UNCHANGED <<sector, desc, partition_descriptor, logical_volume_descriptor,
                   terminating_descriptor, physical_partitions, ext_start>>
    /\ UNCHANGED <<tagVars, sizeVars, scanVars, imageVars, mapsVars, longAdVars>>

\* Lines 599-600: the file set descriptor location, then read_extent.
GoExtent ==
    /\ gpc = "extent"
    /\ LET extent == get_file_set_descriptor_location(logical_volume_descriptor)
       IN  IF extent.outcome # "ok"
           THEN GoFail(extent.outcome) /\ UNCHANGED ext_start
           ELSE LET r == read_extent(logical_partitions, extent)
                IN  /\ ext_start' = r.start
                    /\ GoFail(r.outcome)
    /\ UNCHANGED <<sector, desc, partition_descriptor, logical_volume_descriptor,
                   terminating_descriptor, physical_partitions, logical_partitions>>
    /\ UNCHANGED <<tagVars, sizeVars, scanVars, imageVars, mapsVars, longAdVars>>

Next ==
    \/ SizeProbe
    \/ SizeExhausted
    \/ GoStart
    \/ WalkStep
    \/ GoCheck
    \/ GoMaps
    \/ GoExtent

Spec == InitGo /\ [][Next]_vars

(***************************************************************************)
(* get_partition_maps on its own, one pass of its loop at a time           *)
(***************************************************************************)
MaxMaps == 3

\* The records the tables are made of: type 1 for partitions 0, 1 and 258,
\* type 2, a record of type 3, and a type 1 record whose length byte is 5.
MapRecords ==
    {Type1Record(0), Type1Record(1), Type1Record(258), Type2Record,
     <<3, 6, 1, 0, 0, 0>>, <<1, 5, 1, 0, 0, 0>>}

RECURSIVE Flatten(_)
Flatten(records) ==
    IF records = <<>> THEN <<>> ELSE Head(records) \o Flatten(Tail(records))

\* The tables of up to MaxMaps records that fit the 72 bytes, and the table
\* that fills them with twelve type 1 records.
RecordLists ==
    { l \in UNION { [1..n -> MapRecords] : n \in 0..MaxMaps } : Len(Flatten(l)) <= 72 }
    \cup { [k \in 1..12 |-> Type1Record(0)] }

TableInputs ==
    { [number_of_partition_maps |-> count, raw_partition_maps |-> RawMaps(Flatten(l))] :
        l \in RecordLists, count \in 0..MaxMaps }
    \cup { [number_of_partition_maps |-> 13,
            raw_partition_maps |-> RawMaps(Flatten([k \in 1..12 |-> Type1Record(0)]))] }

InitMaps ==
    /\ TagIdle
    /\ SizeIdle
    /\ ScanIdle
    /\ GoIdle
    /\ LongAdIdle
    /\ table \in TableInputs
    /\ maps_i = 0
    /\ maps_part_start = 0
    /\ maps_retval = <<>>
    /\ mpc = "loop"

\* Lines 345-354: pass maps_i of the loop.  The map appended is the last of
\* the list the pass leaves, and the cursor moves by its size (line 354).
MapsPass ==
    /\ mpc = "loop"
    /\ maps_i < table.number_of_partition_maps
    /\ \E r \in {PartitionMapsFrom([table EXCEPT !.number_of_partition_maps = maps_i + 1],
                                   maps_i, maps_part_start, maps_retval)} :
          IF r.outcome = "ok"
          THEN /\ maps_retval' = r.maps
               /\ maps_part_start' = maps_part_start + r.maps[Len(r.maps)].size
               /\ maps_i' = maps_i + 1
               /\ UNCHANGED mpc
          ELSE /\ mpc' = r.outcome
               /\ UNCHANGED <<maps_i, maps_part_start, maps_retval>>
    /\ UNCHANGED table
    /\ UNCHANGED <<tagVars, sizeVars, scanVars, imageVars, goVars, longAdVars>>

\* Line 356: the range is used up.
MapsReturn ==
    /\ mpc = "loop"
    /\ ~(maps_i < table.number_of_partition_maps)
    /\ mpc' = "returned"
    /\ UNCHANGED <<table, maps_i, maps_part_start, maps_retval>>
    /\ UNCHANGED <<tagVars, sizeVars, scanVars, imageVars, goVars, longAdVars>>

NextMaps == MapsPass \/ MapsReturn

SpecMaps == InitMaps /\ [][NextMaps]_vars

(***************************************************************************)
(* get_file_set_descriptor_location on its own                             *)
(***************************************************************************)
\* The contents-use fields decoded: a long_ad for each extent length,
\* logical block number and partition reference number below, with byte 10
\* (the first byte of the implementation use) zero and not.
ExtentLengths == {0, 512, 2048, 65537}

BlockNumbers == {0, 1, 10, 300}

PartitionReferences == {0, 1, 258}

ContentsUseInputs ==
    { [LongAd(length, block, ref) EXCEPT ![11] = use] :
        length \in ExtentLengths, block \in BlockNumbers,
        ref \in PartitionReferences, use \in {0, 7} }

InitLongAd ==
    /\ TagIdle
    /\ SizeIdle
    /\ ScanIdle
    /\ GoIdle
    /\ MapsIdle
    /\ lvd_contents_use \in ContentsUseInputs
    /\ fsd_location = [outcome |-> "None"]
    /\ lpc = "input"

\* logical_volume_descriptor.file_set_descriptor_location (lines 359-361).
LongAdDecode ==
    /\ lpc = "input"
    /\ fsd_location' = get_file_set_descriptor_location(
                          [logical_volume_contents_use |-> lvd_contents_use])
    /\ lpc' = "decoded"
    /\ UNCHANGED lvd_contents_use
    /\ UNCHANGED <<tagVars, sizeVars, scanVars, imageVars, goVars, mapsVars>>

NextLongAd == LongAdDecode

SpecLongAd == InitLongAd /\ [][NextLongAd]_vars

(***************************************************************************)
(* The properties checked.  What the specification asks of a tag header    *)
(* is stated here from the header bytes alone.                             *)
(***************************************************************************)
LE16(buf, k) == buf[k + 1] + 256 * buf[k + 2]

LE32(buf, k) ==
    buf[k + 1] + 256 * buf[k + 2] + 65536 * buf[k + 3] + 16777216 * buf[k + 4]

\* A header the specification calls valid: identifier not 0, byte 5 zero,
\* byte 4 the byte sum modulo 256.
ValidHeader(buf) ==
    /\ Len(buf) = 16
    /\ LE16(buf, 0) # 0
    /\ buf[6] = 0
    /\ buf[5] = ModSum(buf)

AcceptableAnchor(buf) ==
    /\ ValidHeader(buf)
    /\ LE32(buf, 12) = 256
    /\ LE16(buf, 0) = 2

AcceptedCandidates ==
    { i \in 1..Len(sizes) :
        file_size_d >= 257 * sizes[i] /\ AcceptableAnchor(probe[sizes[i]]) }

\* C1: get_sector_size returns the first candidate, in the order 4096, 2048,
\* 1024, 512, that the file is large enough for and that has a valid anchor
\* tag (location 256, identifier 2) at 256 * size, and fails exactly when
\* there is no such candidate.
C1_FirstAcceptedCandidate ==
    dpc \in {"returned", "failed"} =>
        IF AcceptedCandidates = {}
        THEN dpc = "failed"
        ELSE /\ dpc = "returned"
             /\ \E i \in AcceptedCandidates :
                   /\ \A j \in AcceptedCandidates : i <= j
                   /\ detected = sizes[i]

\* C2: a header with a nonzero identifier, byte 5 zero and byte 4 equal to
\* the byte sum modulo 256 validates, and the fields returned are the
\* little-endian values at offsets 0, 2, 4, 6, 8, 10, 12; a header whose
\* byte 4 is not that sum fails with ChecksumMismatch.
C2_ChecksumRoundTrip ==
    (tpc = "parsed" /\ Len(buffer) = 16 /\ LE16(buffer, 0) # 0) =>
        /\ (buffer[6] = 0 /\ buffer[5] = ModSum(buffer)) =>
              /\ tag.outcome = "ok"
              /\ tag.tag_identifier = LE16(buffer, 0)
              /\ tag.descriptor_version = LE16(buffer, 2)
              /\ tag.tag_check_sum = buffer[5]
              /\ tag.tag_serial_number = LE16(buffer, 6)
              /\ tag.descriptor_crc = LE16(buffer, 8)
              /\ tag.descriptor_crc_length = LE16(buffer, 10)
              /\ tag.tag_location = LE32(buffer, 12)
        /\ (buffer[5] # ModSum(buffer)) => tag.outcome = "ChecksumMismatch"

\* C3: a header that validated, parsed again with byte 5 alone set to a
\* nonzero value, fails with ReservedFieldNonZero.
C3_ReservedFieldEnforced ==
    (tpc = "parsed" /\ origin = "reserved_set") =>
        tag.outcome = "ReservedFieldNonZero"

KnownIdentifiers ==
    {"BEA01", "NSR02", "NSR03", "TEA01", "BOOT2", "CD001", "CDW02"}

\* The sectors the scan examines: up to the first one with an identifier
\* that is not listed, that one included.
ExaminedCount ==
    IF \E i \in 1..Len(vrs) : vrs[i] \notin KnownIdentifiers
    THEN CHOOSE i \in 1..Len(vrs) :
            /\ vrs[i] \notin KnownIdentifiers
            /\ \A j \in 1..(i - 1) : vrs[j] \in KnownIdentifiers
    ELSE Len(vrs)

ObservedAll(n) ==
    /\ \E i \in 1..n : vrs[i] = "BEA01"
    /\ \E i \in 1..n : vrs[i] \in {"NSR02", "NSR03"}
    /\ \E i \in 1..n : vrs[i] = "TEA01"

\* C10 as stated: true is returned only when BEA01, NSR02/NSR03 and TEA01
\* were each observed, no sector after one with another identifier is
\* examined, and a scan that met another identifier does not return true.
C10_OtherIdentifierNotValid ==
    vpc = "returned" =>
        /\ vresult => ObservedAll(vpos)
        /\ \A i \in 1..(vpos - 1) : vrs[i] \in KnownIdentifiers
        /\ (\E i \in 1..vpos : vrs[i] \notin KnownIdentifiers) => ~vresult

\* C10 as amended: the scan examines the sectors up to the first one with
\* another identifier, and returns true exactly when BEA01, NSR02/NSR03 and
\* TEA01 are among the sectors examined, whether another identifier ended
\* the scan or the end of the file did.
C10_ScanResult ==
    vpc = "returned" =>
        IF file_size_v < HEADER_SIZE + SECTOR_SIZE
        THEN vresult = FALSE /\ vpos = 0
        ELSE /\ vpos = ExaminedCount
             /\ vresult = ObservedAll(vpos)

C10_Witness ==
    /\ vpc = "returned"
    /\ vresult
    /\ vpos = 4
    /\ vrs[vpos] \notin KnownIdentifiers

(***************************************************************************)
(* The walk and what follows it                                            *)
(***************************************************************************)
\* The sectors before the anchor the walk has read.
Visited == { n \in ImageSectors : main_extent <= n /\ n < sector /\ n < AnchorSector }

HasKind(n, id) ==
    /\ ValidHeader(Sector(image[n]).tag)
    /\ LE16(Sector(image[n]).tag, 0) = id

SeenKind(id) == \E n \in Visited : HasKind(n, id)

LastOf(id) ==
    CHOOSE n \in Visited :
        HasKind(n, id) /\ \A m \in Visited : HasKind(m, id) => m <= n

\* The three locals lines 570 and 574 test are bound to descriptors.
WalkPassed ==
    /\ logical_volume_descriptor.outcome = "ok"
    /\ partition_descriptor.outcome = "ok"
    /\ terminating_descriptor.outcome = "ok"

\* The loop of the walk is over: by break, or with the range used up.
WalkCompleted ==
    \/ gpc \in {"broke", "maps", "extent", "done"}
    \/ gpc = "failed" /\ (WalkPassed \/ err = "RequiredDescriptorsMissing")

\* Lines 588-597 have run.
MapsActed == gpc \in {"extent", "done"} \/ (gpc = "failed" /\ WalkPassed)

\* read_extent has run.
ReadExtentActed ==
    \/ gpc = "done"
    \/ gpc = "failed" /\ err \in {"PartitionReferenceOutOfRange", "AttributeError"}

\* C4: read_extent resolves a descriptor whose partition reference indexes
\* logical_partitions to byte_start + block_number * logical_block_size, with
\* the extent length as length, and fails with PartitionReferenceOutOfRange
\* for a reference that indexes none.
C4_ExtentResolution ==
    ReadExtentActed =>
        LET extent == get_file_set_descriptor_location(logical_volume_descriptor)
            ref    == extent.extent_location.partition_reference_number
        IN  IF ref < Len(logical_partitions)
            THEN /\ gpc = "done"
                 /\ ext_start =
                      logical_partitions[ref + 1].physical_partition.start
                      + extent.extent_location.logical_block_number
                        * logical_partitions[ref + 1].logical_block_size
            ELSE /\ gpc = "failed"
                 /\ err = "PartitionReferenceOutOfRange"

(***************************************************************************)
(* The partition-map table as the specification decodes it                 *)
(***************************************************************************)
\* The cursor after i records: 6 bytes for a type 1 record, 64 for a type
\* 2 record; -1 when a record before it is of neither type.
RECURSIVE ExpectedCursor(_, _)
ExpectedCursor(raw, i) ==
    IF i = 0 THEN 0
    ELSE LET c == ExpectedCursor(raw, i - 1)
         IN  IF c < 0 \/ c >= Len(raw) THEN -1
             ELSE IF raw[c + 1] = 1 THEN c + 6
             ELSE IF raw[c + 1] = 2 THEN c + 64
             ELSE -1

\* The map table of the captured LogicalVolumeDescriptor as the
\* specification decodes it: record i starts at TableCursor(i).
TableCount == logical_volume_descriptor.number_of_partition_maps

TableRaw == logical_volume_descriptor.raw_partition_maps

TableCursor(i) == ExpectedCursor(TableRaw, i)

\* Every record of the table is of type 1 or 2.
TableDecodes == \A i \in 1..TableCount : TableCursor(i) >= 0

TableType(i) == TableRaw[TableCursor(i) + 1]

TableNumber(i) == LE16(TableRaw, TableCursor(i) + 4)

\* The positions of the table that hold a Type-1 map.
Type1Positions == { i \in 0..(TableCount - 1) : TableType(i) = 1 }

PdCaptured(number) ==
    \E n \in Visited :
        HasKind(n, 5) /\ Sector(image[n]).partition_number = number

LastPd(number) ==
    CHOOSE n \in Visited :
        /\ HasKind(n, 5) /\ Sector(image[n]).partition_number = number
        /\ \A m \in Visited :
              (HasKind(m, 5) /\ Sector(image[m]).partition_number = number) => m <= n

\* C5: once the map loop has run over a table whose records decode, for
\* every Type-1 map at position i the logical partition at index i belongs
\* to that map and is bound to the PartitionDescriptor of the map's
\* partition_number, with start = starting_location * sector_size and size
\* = length * sector_size (every position, when the table holds Type-1 maps
\* only); when the partition_number of a Type-1 map has no captured
\* PartitionDescriptor the resolution fails with PartitionDescriptorMissing,
\* whatever the other maps of the table are.
C5_PartitionResolution ==
    (MapsActed /\ TableDecodes) =>
        IF \A i \in Type1Positions : PdCaptured(TableNumber(i))
        THEN Type1Positions = 0..(TableCount - 1) =>
             /\ ReadExtentActed \/ gpc = "extent"
             /\ Len(logical_partitions) = TableCount
             /\ \A i \in Type1Positions :
                   LET pd == Sector(image[LastPd(TableNumber(i))])
                   IN  /\ logical_partitions[i + 1].partition_map.partition_number
                            = TableNumber(i)
                       /\ logical_partitions[i + 1].physical_partition.start
                            = pd.partition_starting_location * detected
                       /\ logical_partitions[i + 1].physical_partition.size
                            = pd.partition_length * detected
        ELSE gpc = "failed" /\ err = "PartitionDescriptorMissing"

\* C6: on the image with 2048-byte sectors whose anchor points at sector 257
\* and whose sectors 257.. hold a PrimaryVolumeDescriptor, a
\* PartitionDescriptor, a LogicalVolumeDescriptor with one Type-1 map and a
\* TerminatingDescriptor, the pipeline ends without failure, has walked the
\* sectors from 257 on, and has resolved the file set descriptor to a byte
\* offset inside the partition.
C6_EndToEnd ==
    ( /\ dpc = "returned"
      /\ detected = 2048
      /\ anchor_reserved_ok
      /\ main_extent = AnchorSector + 1
      /\ \A i \in 1..Len(PastAnchor) : image[AnchorSector + i] = PastAnchor[i]
      /\ gpc \in {"done", "failed", "returned"} ) =>
        /\ gpc = "done"
        /\ sector > main_extent
        /\ ext_start >= 100 * 2048
        /\ ext_start < (100 + 50) * 2048

\* C7: the walk stops early, and goes on to the partition maps, only with
\* all four of PrimaryVolumeDescriptor, PartitionDescriptor,
\* LogicalVolumeDescriptor and TerminatingDescriptor captured; a walk that
\* lacks one of them does not get past line 575.
C7_WalkNeedsAllFour ==
    gpc \in {"broke", "maps"} =>
        /\ desc.outcome = "ok"
        /\ partition_descriptor.outcome = "ok"
        /\ logical_volume_descriptor.outcome = "ok"
        /\ terminating_descriptor.outcome = "ok"

\* Two or more of the sectors the walk read carry a valid tag of the kind.
SeenTwice(id) == \E m, n \in Visited : m < n /\ HasKind(m, id) /\ HasKind(n, id)

\* C8: after a walk that read two or more sectors with a valid tag of the
\* same kind, the PrimaryVolumeDescriptor, the PartitionDescriptor and the
\* LogicalVolumeDescriptor held are those of the last sector of their kind
\* the walk read, not of the first.
C8_LastInstanceRetained ==
    WalkCompleted =>
        /\ SeenTwice(1) =>
              /\ desc.outcome = "ok"
              /\ desc.volume_descriptor_sequence_number
                   = Sector(image[LastOf(1)]).volume_descriptor_sequence_number
        /\ SeenTwice(5) =>
              /\ partition_descriptor.outcome = "ok"
              /\ partition_descriptor.partition_number
                   = Sector(image[LastOf(5)]).partition_number
              /\ partition_descriptor.partition_starting_location
                   = Sector(image[LastOf(5)]).partition_starting_location
        /\ SeenTwice(6) =>
              /\ logical_volume_descriptor.outcome = "ok"
              /\ logical_volume_descriptor.raw_partition_maps
                   = Sector(image[LastOf(6)]).raw_partition_maps
              /\ logical_volume_descriptor.logical_volume_contents_use
                   = Sector(image[LastOf(6)]).logical_volume_contents_use

\* C9: with a LogicalVolumeDescriptor whose only partition map has type 2,
\* the resolution through the maps fails with UnsupportedPartitionMapType.
C9_Type2Unsupported ==
    ( /\ MapsActed
      /\ TableCount = 1
      /\ logical_volume_descriptor.raw_partition_maps[1] = 2 ) =>
        gpc = "failed" /\ err = "UnsupportedPartitionMapType"


\* C11: get_partition_maps decodes number_of_partition_maps records one
\* after the other.  While the loop runs and when it has returned, pass i
\* has appended exactly the record that starts at the sum of the sizes of
\* the records before it (6 for type 1, 64 for type 2), and the cursor is
\* the sum of the sizes of the records appended; the list returned has
\* number_of_partition_maps maps; UnknownPartitionMapType is raised only
\* for a record whose first byte is neither 1 nor 2.
C11_TableDecoding ==
    LET raw == table.raw_partition_maps
    IN  /\ mpc \in {"loop", "returned"} =>
            /\ Len(maps_retval) = maps_i
            /\ maps_part_start = ExpectedCursor(raw, maps_i)
            /\ \A k \in 1..maps_i :
                 LET c == ExpectedCursor(raw, k - 1)
                 IN  /\ maps_retval[k].partition_map_type = raw[c + 1]
                     /\ raw[c + 1] = 1 =>
                          maps_retval[k].partition_number = LE16(raw, c + 4)
        /\ mpc = "returned" => maps_i = table.number_of_partition_maps
        /\ mpc = "UnknownPartitionMapType" =>
            /\ maps_i < table.number_of_partition_maps
            /\ raw[maps_part_start + 1] \notin {1, 2}

(***************************************************************************)
(* Sectors the walk skips                                                  *)
(***************************************************************************)
\* The sectors whose sixteen tag bytes DescriptorTag rejects.
InvalidTagKinds ==
    { kind \in MainKinds \cup ExtraKinds :
        DescriptorTag(Sector(kind).tag, 0).outcome # "ok" }

\* A pass of the walk over a sector whose sixteen tag bytes fail
\* DescriptorTag (identifier 0, checksum mismatch, byte 5 not zero) leaves
\* desc, partition_descriptor, logical_volume_descriptor,
\* terminating_descriptor and physical_partitions as they were, raises
\* nothing, and the walk goes on with the next sector.
SkipsInvalidTag ==
    ( /\ gpc = "walk"
      /\ sector < AnchorSector
      /\ sector' = sector + 1
      /\ image'[sector] \in InvalidTagKinds )
    => ( /\ gpc' = "walk"
         /\ err' = err
         /\ UNCHANGED <<desc, partition_descriptor, logical_volume_descriptor,
                        terminating_descriptor, physical_partitions>> )

\* The step ends go with a failure.
Aborts == gpc # "failed" /\ gpc' = "failed"

\* The failure is that of the anchor read (lines 501-511).
AbortAtAnchorRead == gpc = "start"

\* The failure is that of lines 574-575, the range of the walk used up.
AbortAtExhaustion == gpc = "walk" /\ ~(sector < 257) /\ sector' = sector

\* The failure is raised in the pass over a sector whose tag validated: by
\* the typed parser of the sector, or by line 570.
AbortInTagValidSector ==
    /\ gpc = "walk"
    /\ sector < 257
    /\ sector' = sector + 1
    /\ sector < AnchorSector => image'[sector] \notin InvalidTagKinds
    /\ err' \in {"ReservedFieldNonZero", "NotOstaCompliant", "UnboundLocalError"}

\* The failure is raised after the walk: by get_partition_maps, by the
\* lookup of line 593, or by read_extent.
AbortAfterWalk ==
    \/ gpc = "maps" /\ err' \in {"UnknownPartitionMapType", "PartitionDescriptorMissing"}
    \/ gpc = "extent" /\ err' \in {"PartitionReferenceOutOfRange", "AttributeError"}

\* C12 as stated: a sector whose tag fails validation is skipped with every
\* captured descriptor unchanged, and go is ended with a failure only by
\* the anchor read or by the walk using up its range without the required
\* descriptors.
C12_AbortOnlyAnchorOrExhaustion ==
    [][ /\ SkipsInvalidTag
        /\ Aborts => (AbortAtAnchorRead \/ AbortAtExhaustion) ]_vars

\* C12: a sector whose tag fails validation is skipped with every captured
\* descriptor unchanged and never ends go; go is ended with a failure by
\* the anchor read, by the pass over a sector whose tag validated (its
\* typed parser raises, or line 570 reads the unbound partition_descriptor),
\* by the walk using up its range without the required descriptors, or
\* after the walk by the partition maps, the partition lookup or
\* read_extent.
C12_InvalidTagSkipped ==
    [][ /\ SkipsInvalidTag
        /\ Aborts => \/ AbortAtAnchorRead
                     \/ AbortAtExhaustion
                     \/ AbortInTagValidSector
                     \/ AbortAfterWalk ]_vars

\* A PartitionDescriptor was captured, then a zero sector and a sector whose
\* tag has byte 5 set were read, and the walk is about to read the anchor.
C12_Witness ==
    /\ gpc = "walk"
    /\ sector = AnchorSector
    /\ main_extent = AnchorSector - 3
    /\ image[AnchorSector - 3] = "PD0a"
    /\ image[AnchorSector - 2] = "ZERO"
    /\ image[AnchorSector - 1] = "PD_TAGRES"
    /\ partition_descriptor = PartitionDescriptor(Sector("PD0a"))
    /\ DOMAIN physical_partitions = {0}
    /\ physical_partitions[0] = PhysicalPartition(100 * detected, 50 * detected)

(***************************************************************************)
(* The long_ad of the contents-use field                                   *)
(***************************************************************************)
\* C13: the LongAllocationDescriptor made of the sixteen contents-use bytes
\* has extent_length = the little-endian u32 at bytes 0..3, logical block
\* number = the little-endian u32 at bytes 4..7, partition reference number
\* = the little-endian u16 at bytes 8..9 and implementation_use = bytes
\* 10..15.
C13_LongAdDecoding ==
    lpc = "decoded" =>
        /\ fsd_location.outcome = "ok"
        /\ fsd_location.extent_length = LE32(lvd_contents_use, 0)
        /\ fsd_location.extent_location.logical_block_number
             = LE32(lvd_contents_use, 4)
        /\ fsd_location.extent_location.partition_reference_number
             = LE16(lvd_contents_use, 8)
        /\ fsd_location.implementation_use = SubSeq(lvd_contents_use, 11, 16)

====
